---- MODULE Spec2Model ----
(***************************************************************************)
(* A model of blogger.js: the JSON fetcher, the comparator factory, the    *)
(* BlogPost / BlogPostMeta / BlogPostMetaList classes, the HTML renderers  *)
(* and the page assembly functions getBlogPosts and latestBlogPost.        *)
(*                                                                         *)
(* Text is modelled as a sequence of one-character strings, so that        *)
(* split, replace, substr, lastIndexOf and the relational operators on     *)
(* strings are computed character by character as JavaScript does.         *)
(* Asynchronous functions are modelled at the granularity of their awaits: *)
(* one action runs a function from one await to the next.                  *)
(***************************************************************************)
EXTENDS Integers, Sequences, FiniteSets, TLC

\* ------------------------------------------------------------------ bounds
\* Longest `posts` array of a metadata document.
MaxPosts == 2
\* Number of callers that use one BlogPostMetaList.
NClients == 2
\* Largest maxChars handed to latestBlogPost.
MaxChars == 60
\* Most getPost() resolutions of handles in one run.
MaxResolves == 2

\* ------------------------------------------------------ JavaScript strings
\* The characters of the model in code-unit order ("\n", then the printable characters used).
Ascii == <<"\n", " ", "!", "\"", "'", "(", ")", ",", "-", ".", "/", "0", "1", "2", "3", "4", "5", "6", "7", "8", "9", ":", ";", "<", "=", ">", "?", "A", "B", "C", "D", "E", "F", "G", "H", "I", "J", "K", "L", "M", "N", "O", "P", "Q", "R", "S", "T", "U", "V", "W", "X", "Y", "Z", "[", "]", "_", "a", "b", "c", "d", "e", "f", "g", "h", "i", "j", "k", "l", "m", "n", "o", "p", "q", "r", "s", "t", "u", "v", "w", "x", "y", "z">>

Code(c) == CHOOSE i \in 1..Len(Ascii) : Ascii[i] = c

\* a < b on two strings: lexicographic on code units.
RECURSIVE StrLess(_, _)
StrLess(a, b) ==
    IF b = <<>> THEN FALSE
    ELSE IF a = <<>> THEN TRUE
    ELSE IF Head(a) = Head(b) THEN StrLess(Tail(a), Tail(b))
    ELSE Code(Head(a)) < Code(Head(b))

\* s.indexOf(pat): 0-based index of the first occurrence, -1 when there is none.
IndexOf(s, pat) ==
    LET hits == {i \in 0..(Len(s) - Len(pat)) : SubSeq(s, i + 1, i + Len(pat)) = pat}
    IN IF hits = {} THEN -1 ELSE CHOOSE i \in hits : \A j \in hits : i <= j

\* s.lastIndexOf(pat): 0-based index of the last occurrence, -1 when there is none.
LastIndexOf(s, pat) ==
    LET hits == {i \in 0..(Len(s) - Len(pat)) : SubSeq(s, i + 1, i + Len(pat)) = pat}
    IN IF hits = {} THEN -1 ELSE CHOOSE i \in hits : \A j \in hits : i >= j

Min(a, b) == IF a < b THEN a ELSE b

\* s.substr(start, length) for start = 0: a negative length yields "".
Substr0(s, length) ==
    IF length <= 0 THEN <<>> ELSE SubSeq(s, 1, Min(length, Len(s)))

\* s.replace(pat, rep) with a string pattern: the first occurrence only.
Replace(s, pat, rep) ==
    LET i == IndexOf(s, pat)
    IN IF i < 0 THEN s
       ELSE SubSeq(s, 1, i) \o rep \o SubSeq(s, i + Len(pat) + 1, Len(s))

\* s.replace(/c/g, rep) for a one-character pattern: every occurrence.
RECURSIVE ReplaceAllChar(_, _, _)
ReplaceAllChar(s, c, rep) ==
    IF s = <<>> THEN <<>>
    ELSE (IF Head(s) = c THEN rep ELSE <<Head(s)>>) \o ReplaceAllChar(Tail(s), c, rep)

\* s.split(c): the pieces between the separators, "" included; never empty.
RECURSIVE Split(_, _)
Split(s, c) ==
    LET i == IndexOf(s, <<c>>)
    IN IF i < 0 THEN <<s>>
       ELSE <<SubSeq(s, 1, i)>> \o Split(SubSeq(s, i + 2, Len(s)), c)

\* String(n) for a non-negative integer.
Digits == <<"0", "1", "2", "3", "4", "5", "6", "7", "8", "9">>
RECURSIVE NumToStr(_)
NumToStr(n) ==
    IF n < 10 THEN <<Digits[n + 1]>>
    ELSE NumToStr(n \div 10) \o <<Digits[(n % 10) + 1]>>

IsDigit(c) == \E i \in 1..Len(Digits) : Digits[i] = c
DigitVal(c) == (CHOOSE i \in 1..Len(Digits) : Digits[i] = c) - 1

RECURSIVE StrToNum(_)
StrToNum(s) ==
    IF s = <<>> THEN 0
    ELSE StrToNum(SubSeq(s, 1, Len(s) - 1)) * 10 + DigitVal(s[Len(s)])

\* ---------------------------------------------------------- JavaScript Date
\* A Date is its time value.  The documents of the model carry date-only
\* strings, which parse to UTC midnight, so the time value is kept in days
\* since 1970-01-01 (in milliseconds it would not fit a 32-bit integer).
\* Any string that is not a calendar date YYYY-MM-DD yields an Invalid Date,
\* whose time value is NaN.
NaNDate == [nan |-> TRUE, days |-> 0]

IsLeap(y) == (y % 4 = 0 /\ y % 100 # 0) \/ y % 400 = 0

DaysInMonth(y, m) ==
    IF m = 2 THEN (IF IsLeap(y) THEN 29 ELSE 28)
    ELSE IF m \in {4, 6, 9, 11} THEN 30 ELSE 31

DaysFromCivil(y0, m, d) ==
    LET y   == IF m <= 2 THEN y0 - 1 ELSE y0
        era == y \div 400
        yoe == y - era * 400
        mp  == IF m > 2 THEN m - 3 ELSE m + 9
        doy == (153 * mp + 2) \div 5 + d - 1
        doe == yoe * 365 + yoe \div 4 - yoe \div 100 + doy
    IN era * 146097 + doe - 719468

CivilFromDays(z0) ==
    LET z   == z0 + 719468
        era == z \div 146097
        doe == z - era * 146097
        yoe == (doe - doe \div 1460 + doe \div 36524 - doe \div 146096) \div 365
        doy == doe - (365 * yoe + yoe \div 4 - yoe \div 100)
        mp  == (5 * doy + 2) \div 153
        d   == doy - (153 * mp + 2) \div 5 + 1
        m   == IF mp < 10 THEN mp + 3 ELSE mp - 9
        y   == yoe + era * 400 + (IF m <= 2 THEN 1 ELSE 0)
    IN [year |-> y, month |-> m, day |-> d]

\* new Date(s) for a string s.
NewDate(s) ==
    IF /\ Len(s) = 10
       /\ s[5] = "-" /\ s[8] = "-"
       /\ \A i \in {1, 2, 3, 4, 6, 7, 9, 10} : IsDigit(s[i])
    THEN LET y == StrToNum(SubSeq(s, 1, 4))
             m == StrToNum(SubSeq(s, 6, 7))
             d == StrToNum(SubSeq(s, 9, 10))
         IN IF m \in 1..12 /\ d \in 1..DaysInMonth(y, m)
            THEN [nan |-> FALSE, days |-> DaysFromCivil(y, m, d)]
            ELSE NaNDate
    ELSE NaNDate

\* a.valueOf() === b.valueOf() on two Dates: NaN is not equal to itself.
SameInstant(a, b) == ~a.nan /\ ~b.nan /\ a.days = b.days

MonthNames == <<
    <<"J", "a", "n", "u", "a", "r", "y">>, <<"F", "e", "b", "r", "u", "a", "r", "y">>, <<"M", "a", "r", "c", "h">>, <<"A", "p", "r", "i", "l">>, <<"M", "a", "y">>, <<"J", "u", "n", "e">>,
    <<"J", "u", "l", "y">>, <<"A", "u", "g", "u", "s", "t">>, <<"S", "e", "p", "t", "e", "m", "b", "e", "r">>, <<"O", "c", "t", "o", "b", "e", "r">>, <<"N", "o", "v", "e", "m", "b", "e", "r">>, <<"D", "e", "c", "e", "m", "b", "e", "r">> >>

\* date.toLocaleString('en-US', {month: 'long', day: 'numeric', year: 'numeric'}),
\* in a UTC environment.
ToLocaleString(date) ==
    IF date.nan THEN <<"I", "n", "v", "a", "l", "i", "d", " ", "D", "a", "t", "e">>
    ELSE LET c == CivilFromDays(date.days)
         IN MonthNames[c.month] \o <<" ">> \o NumToStr(c.day) \o <<",", " ">> \o NumToStr(c.year)

\* JSON.stringify(a) === JSON.stringify(b) on two arrays of strings.
SameJson(a, b) == a = b
\* ------------------------------------------------------------- postSorter
\* The value a comparator built by postSorter(property, reversed) returns
\* for (a, b).  a[property] is read with the relational operators on strings.
postSorter(property, reversed, a, b) ==
    IF reversed
    THEN IF StrLess(a[property], b[property]) THEN 1
         ELSE IF StrLess(b[property], a[property]) THEN -1
         ELSE 0
    ELSE IF StrLess(b[property], a[property]) THEN 1
         ELSE IF StrLess(a[property], b[property]) THEN -1
         ELSE 0

\* ---------------------------------------------------------------- BlogPost
\* new BlogPost(data) throws when data['tags'] is absent (split of undefined).
BlogPostThrows(data) == "tags" \notin DOMAIN data

BlogPost(data) ==
    [ title   |-> data["title"],
      created |-> NewDate(data["created"]),
      updated |-> NewDate(data["updated"]),
      author  |-> data["author"],
      tags    |-> Split(data["tags"], ","),
      content |-> data["content"] ]

\* this.equals(obj) for two BlogPost objects.
equals(this, obj) ==
    /\ this.title = obj.title
    /\ SameInstant(this.created, obj.created)
    /\ SameInstant(this.updated, obj.updated)
    /\ this.author = obj.author
    /\ SameJson(this.tags, obj.tags)
    /\ this.content = obj.content

\* ------------------------------------------------------------ BlogPostMeta
BlogPostMetaThrows(data) == "tags" \notin DOMAIN data

BlogPostMeta(directory, data) ==
    [ title   |-> data["title"],
      id      |-> data["path"],
      path    |-> directory \o <<"/">> \o data["path"],
      created |-> data["created"],
      updated |-> data["updated"],
      tags    |-> Split(data["tags"], ",") ]

\* BlogPostMetaList.convertToMetadataObject(data): one handle per entry, in
\* the order of the entries.
convertToMetadataObject(directory, data) ==
    [i \in 1..Len(data) |-> BlogPostMeta(directory, data[i])]

convertThrows(data) == \E i \in 1..Len(data) : BlogPostMetaThrows(data[i])

\* ----------------------------------------------------------- HTML renderers
getTitleHtml(post) == <<"<", "h", "3", ">">> \o post.title \o <<"<", "/", "h", "3", ">">>

getTimestampHtml(post) ==
    LET created == <<"<", "p", " ", "c", "l", "a", "s", "s", "=", "\"", "t", "i", "m", "e", "s", "t", "a", "m", "p", "\"", ">", "W", "r", "i", "t", "t", "e", "n", " ", "b", "y", " ">> \o post.author \o <<" ", "o", "n", " ">>
                       \o ToLocaleString(post.created) \o <<"<", "/", "p", ">">>
        updated == IF ~SameInstant(post.created, post.updated)
                   THEN <<"<", "p", " ", "c", "l", "a", "s", "s", "=", "\"", "t", "i", "m", "e", "s", "t", "a", "m", "p", "\"", ">", "U", "p", "d", "a", "t", "e", "d", " ", "o", "n", " ">>
                            \o ToLocaleString(post.updated) \o <<"<", "/", "p", ">">>
                   ELSE <<>>
    IN created \o updated

getBodyHtml(post) ==
    <<"<", "p", ">">> \o ReplaceAllChar(post.content, "\n", <<"<", "/", "p", ">", "<", "p", ">">>) \o <<"<", "/", "p", ">">>

\* The string getPostHtml returns once the post is loaded.
PostHtml(post, contentOnly) ==
    IF contentOnly
    THEN getTitleHtml(post) \o getTimestampHtml(post) \o getBodyHtml(post)
    ELSE <<"<", "a", "r", "t", "i", "c", "l", "e", ">">> \o getTitleHtml(post) \o getTimestampHtml(post)
             \o getBodyHtml(post) \o <<"<", "/", "a", "r", "t", "i", "c", "l", "e", ">">>

\* --------------------------------------------------------------- the site
\* The static files the program reads, under the directory handed to the
\* list.  The metadata document is chosen in Init among the sequences of
\* these entries; the post documents are fixed.
Directory == <<"d", "i", "r", "/">>

EntryA == [title |-> <<"T", "0">>, path |-> <<"a", ".", "j", "s", "o", "n">>, created |-> <<"2", "0", "2", "2", "-", "0", "1", "-", "2", "0">>,
           updated |-> <<"2", "0", "2", "2", "-", "0", "1", "-", "2", "1">>, tags |-> <<"x", ",", "y">>]
EntryB == [title |-> <<"T", "1">>, path |-> <<"b", ".", "j", "s", "o", "n", "l", ".", "j", "s", "o", "n">>, created |-> <<"2", "0", "2", "2", "-", "0", "1", "-", "2", "2">>,
           updated |-> <<"2", "0", "2", "2", "-", "0", "1", "-", "2", "2">>, tags |-> <<"a", ",", " ", "b">>]
EntryC == [title |-> <<"T", "2">>, path |-> <<"c", ".", "j", "s", "o", "n">>, created |-> <<"2", "0", "2", "2", "-", "0", "1", "-", "2", "1">>,
           updated |-> <<"2", "0", "2", "2", "-", "0", "1", "-", "2", "5">>, tags |-> <<>>]
EntryD == [title |-> <<"T", "3">>, path |-> <<"d", ".", "j", "s", "o", "n">>, created |-> <<"2", "0", "2", "2", "-", "0", "1", "-", "2", "0">>,
           updated |-> <<"2", "0", "2", "2", "-", "0", "1", "-", "2", "0">>, tags |-> <<"y">>]

MetaEntries == {EntryA, EntryB, EntryC, EntryD}

PostA == [title |-> <<"T", "0">>, created |-> <<"2", "0", "2", "2", "-", "0", "1", "-", "2", "0">>, updated |-> <<"2", "0", "2", "2", "-", "0", "1", "-", "2", "1">>,
          author |-> <<"A", "u">>, tags |-> <<"x", ",", "y">>, content |-> <<"L", "1", "\n", "L", "2">>]
PostB == [title |-> <<"T", "1">>, created |-> <<"2", "0", "2", "2", "-", "0", "1", "-", "2", "2">>, updated |-> <<"2", "0", "2", "2", "-", "0", "1", "-", "2", "2">>,
          author |-> <<"B", "o">>, tags |-> <<"a", ",", " ", "b">>, content |-> <<"a", "b", " ", "c", "d", " ", "e", "f">>]
\* A post whose created value is not a date.
PostC == [title |-> <<"T", "2">>, created |-> <<"s", "o", "o", "n">>, updated |-> <<"2", "0", "2", "2", "-", "0", "1", "-", "2", "5">>,
          author |-> <<"C", "y">>, tags |-> <<>>, content |-> <<"l", "a", "t", "e", "r">>]
\* A post document without tags.
PostD == [title |-> <<"T", "3">>, created |-> <<"2", "0", "2", "2", "-", "0", "1", "-", "2", "0">>, updated |-> <<"2", "0", "2", "2", "-", "0", "1", "-", "2", "0">>,
          author |-> <<"D", "i">>, content |-> <<"n", "o", " ", "t", "a", "g", "s">>]

\* The document the server holds at a post path.
PostDocument(path) ==
    CASE path = Directory \o <<"/", "a", ".", "j", "s", "o", "n">> -> PostA
      [] path = Directory \o <<"/", "b", ".", "j", "s", "o", "n", "l", ".", "j", "s", "o", "n">> -> PostB
      [] path = Directory \o <<"/", "c", ".", "j", "s", "o", "n">> -> PostC
      [] path = Directory \o <<"/", "d", ".", "j", "s", "o", "n">> -> PostD

\* The sequences without repetition of at most n entries.
RECURSIVE EntrySeqs(_)
EntrySeqs(n) ==
    IF n = 0 THEN {<<>>}
    ELSE LET shorter == EntrySeqs(n - 1)
         IN shorter \cup {Append(s, e) : s \in shorter, e \in MetaEntries}

MetaDocuments ==
    {[posts |-> s] : s \in {t \in EntrySeqs(MaxPosts) :
                              \A i, j \in 1..Len(t) : t[i] = t[j] => i = j}}
\* ------------------------------------------------------ Array.prototype.sort
\* A stable sort by the comparator postSorter(property, reversed).
RECURSIVE InsertSorted(_, _, _, _)
InsertSorted(x, sorted, property, reversed) ==
    IF sorted = <<>> THEN <<x>>
    ELSE IF postSorter(property, reversed, Head(sorted), x) > 0
         THEN <<x>> \o sorted
         ELSE <<Head(sorted)>> \o InsertSorted(x, Tail(sorted), property, reversed)

RECURSIVE ArraySort(_, _, _)
ArraySort(arr, property, reversed) ==
    IF arr = <<>> THEN <<>>
    ELSE InsertSorted(arr[Len(arr)],
                      ArraySort(SubSeq(arr, 1, Len(arr) - 1), property, reversed),
                      property, reversed)

\* ------------------------------------------------------------------- state
VARIABLES
    metaDoc,      \* the metadata document the server holds at directory + file
    constructed,  \* whether the BlogPostMetaList of this run exists
    list,         \* its fields: [initialized, posts]
    inits,        \* the promises of the init() invocations, in call order
    heap,         \* the arrays of handles allocated so far; a reference is an index
    calls,        \* per client: its call on the list and where that call stands
    resolutions,  \* the getPost() invocations, in call order, and their outcome
    page,         \* the running page assembly function and its locals
    dom           \* the content of the target element

vars == <<metaDoc, constructed, list, inits, heap, calls, resolutions, page, dom>>

Clients == 1..NClients

\* The values this.posts can hold: nothing yet, a promise of init(), an array.
Undefined == [tag |-> "undefined", n |-> 0]
PromiseOf(i) == [tag |-> "promise", n |-> i]
ArrayAt(r) == [tag |-> "array", n |-> r]

Pending == [state |-> "pending", ref |-> 0]
Fulfilled(r) == [state |-> "fulfilled", ref |-> r]
Rejected == [state |-> "rejected", ref |-> 0]

Operations == {"getPosts", "getPostsSorted", "getPostsMostRecent"}
Attributes == {"created", "updated"}

IdleCall ==
    [pc |-> "idle", op |-> "none", attr |-> "created", reverse |-> FALSE,
     awaits |-> Undefined, own |-> FALSE, early |-> FALSE, ret |-> 0, snap |-> <<>>]

\* ------------------------------------------------------- BlogPostMetaList
\* init() that forgets to set the flag.
InitStartNoFlag(l, ps) ==
    [list    |-> l,
     inits   |-> Append(ps, Pending),
     promise |-> Len(ps) + 1]

\* init() up to its await: the flag is set and the fetch of the metadata
\* document is issued; the caller holds the promise of this invocation.
InitStart(l, ps) ==
    [list    |-> [l EXCEPT !.initialized = TRUE],
     inits   |-> Append(ps, Pending),
     promise |-> Len(ps) + 1]

\* A constructor that leaves initialization to the first access.
ConstructorLazy(ps, hp) ==
    [list  |-> [initialized |-> FALSE, posts |-> ArrayAt(Len(hp) + 1)],
     inits |-> ps,
     heap  |-> Append(hp, <<>>)]

\* A constructor that starts init() but keeps an empty array instead of its promise.
ConstructorEmptyPosts(ps, hp) ==
    LET r == InitStart([initialized |-> FALSE, posts |-> Undefined], ps)
    IN [list  |-> [r.list EXCEPT !.posts = ArrayAt(Len(hp) + 1)],
        inits |-> r.inits,
        heap  |-> Append(hp, <<>>)]

\* new BlogPostMetaList(file, directory).
Constructor(ps, hp) ==
    LET r == InitStart([initialized |-> FALSE, posts |-> Undefined], ps)
    IN [list  |-> [r.list EXCEPT !.posts = PromiseOf(r.promise)],
        inits |-> r.inits,
        heap  |-> hp]

\* getPosts() up to its await: what the call waits for, and whether it called init().
GetPostsStart(l, ps) ==
    IF ~l.initialized
    THEN LET r == InitStart(l, ps)
         IN [list |-> r.list, inits |-> r.inits, awaits |-> PromiseOf(r.promise), own |-> TRUE]
    ELSE [list |-> l, inits |-> ps, awaits |-> l.posts, own |-> FALSE]

\* A getPostsSorted that forwards attr to the comparator.
SortedViewByAttr(arr, attr, reverse) == ArraySort(arr, attr, reverse)

\* The comparator getPostsSorted(attr, reverse) sorts with.
SortedView(arr, attr, reverse) == ArraySort(arr, "created", reverse)

\* The arguments a call hands on to getPostsSorted: its own, or those
\* getPostsMostRecent passes; getPosts takes none.
SortArgs(op, attr, reverse) ==
    IF op = "getPostsSorted" THEN [attr |-> attr, reverse |-> reverse]
    ELSE [attr |-> "created", reverse |-> FALSE]

\* The heap once the continuation of a call has run on the array at r:
\* getPosts hands the array on, getPostsSorted sorts that same array.
AfterReturn(hp, r, op, attr, reverse) ==
    IF op = "getPosts" THEN hp
    ELSE [hp EXCEPT ![r] = SortedView(hp[r], attr, reverse)]

\* Whether what a call awaits is settled, and with what.
Settled(v, ps) == v.tag = "array" \/ (v.tag = "promise" /\ ps[v.n].state # "pending")
Fails(v, ps) == v.tag = "promise" /\ ps[v.n].state = "rejected"
RefOf(v, ps) == IF v.tag = "array" THEN v.n ELSE ps[v.n].ref

\* --------------------------------------------------------------- actions
Construct ==
    /\ ~constructed
    /\ LET r == Constructor(inits, heap)
       IN /\ list' = r.list
          /\ inits' = r.inits
          /\ heap' = r.heap
    /\ constructed' = TRUE
    /\ UNCHANGED <<metaDoc, calls, resolutions, page, dom>>

\* A client calls getPosts, getPostsSorted(attr, reverse) or getPostsMostRecent.
\* Clients are interchangeable and are numbered in the order of their calls.
\* The call record keeps, besides where the call stands, what it did and
\* returned: whether it ran init() (own), whether it was issued before any
\* metadata fetch had completed (early), and the array as it was returned (snap).
Call(c, op, attr, reverse) ==
    /\ constructed
    /\ calls[c].pc = "idle"
    /\ \A d \in Clients : d < c => calls[d].pc # "idle"
    /\ LET r == GetPostsStart(list, inits)
           a == SortArgs(op, attr, reverse)
       IN /\ list' = r.list
          /\ inits' = r.inits
          /\ calls' = [calls EXCEPT ![c] =
                 [pc |-> "await", op |-> op, attr |-> a.attr, reverse |-> a.reverse,
                  awaits |-> r.awaits, own |-> r.own,
                  early |-> \A i \in 1..Len(inits) : inits[i].state = "pending",
                  ret |-> 0, snap |-> <<>>]]
    /\ UNCHANGED <<metaDoc, constructed, heap, resolutions, page, dom>>

\* The fetch of init() invocation i delivers the metadata document: the rest
\* of init() runs, storing the new array of handles and resolving with it.
MetaFetchOk(i) ==
    /\ i \in 1..Len(inits)
    /\ inits[i].state = "pending"
    /\ IF convertThrows(metaDoc["posts"])
       THEN /\ inits' = [inits EXCEPT ![i] = Rejected]
            /\ UNCHANGED <<list, heap>>
       ELSE /\ heap' = Append(heap, convertToMetadataObject(Directory, metaDoc["posts"]))
            /\ list' = [list EXCEPT !.posts = ArrayAt(Len(heap) + 1)]
            /\ inits' = [inits EXCEPT ![i] = Fulfilled(Len(heap) + 1)]
    /\ UNCHANGED <<metaDoc, constructed, calls, resolutions, page, dom>>

\* The fetch of init() invocation i fails (network error, not JSON).
MetaFetchFail(i) ==
    /\ i \in 1..Len(inits)
    /\ inits[i].state = "pending"
    /\ inits' = [inits EXCEPT ![i] = Rejected]
    /\ UNCHANGED <<metaDoc, constructed, list, heap, calls, resolutions, page, dom>>

\* The call of client c resumes after its await and returns.  Continuations
\* that are ready at the same time may run in any order.
Resume(c) ==
    /\ calls[c].pc = "await"
    /\ Settled(calls[c].awaits, inits)
    /\ IF Fails(calls[c].awaits, inits)
       THEN /\ calls' = [calls EXCEPT ![c].pc = "failed"]
            /\ UNCHANGED heap
       ELSE LET r  == RefOf(calls[c].awaits, inits)
                hp == AfterReturn(heap, r, calls[c].op, calls[c].attr, calls[c].reverse)
            IN /\ heap' = hp
               /\ calls' = [calls EXCEPT ![c].pc = "done", ![c].ret = r,
                                         ![c].snap = hp[r]]
    /\ UNCHANGED <<metaDoc, constructed, list, inits, resolutions, page, dom>>

\* ------------------------------------------------------ BlogPostMeta.getPost
NoPost == [none |-> TRUE]

\* handle.getPost() up to its await: the fetch of the handle's path is issued.
GetPostStart(rs, handle) ==
    Append(rs, [path |-> handle.path, state |-> "pending", post |-> NoPost])

\* A client that holds the array a call returned resolves its k-th handle.
GetPost(c, k) ==
    /\ calls[c].pc = "done"
    /\ Len(resolutions) < MaxResolves
    /\ k \in 1..Len(heap[calls[c].ret])
    /\ resolutions' = GetPostStart(resolutions, heap[calls[c].ret][k])
    /\ UNCHANGED <<metaDoc, constructed, list, inits, heap, calls, page, dom>>

\* The fetch of getPost() invocation j delivers the post document and a
\* BlogPost is constructed from it; a throwing constructor rejects the call.
PostFetchOk(j) ==
    /\ j \in 1..Len(resolutions)
    /\ resolutions[j].state = "pending"
    /\ LET data == PostDocument(resolutions[j].path)
       IN IF BlogPostThrows(data)
          THEN resolutions' = [resolutions EXCEPT ![j].state = "rejected"]
          ELSE resolutions' = [resolutions EXCEPT ![j].state = "fulfilled",
                                                  ![j].post = BlogPost(data)]
    /\ UNCHANGED <<metaDoc, constructed, list, inits, heap, calls, page, dom>>

\* The fetch of getPost() invocation j fails.
PostFetchFail(j) ==
    /\ j \in 1..Len(resolutions)
    /\ resolutions[j].state = "pending"
    /\ resolutions' = [resolutions EXCEPT ![j].state = "rejected"]
    /\ UNCHANGED <<metaDoc, constructed, list, inits, heap, calls, page, dom>>

\* ------------------------------------------------- page assembly functions
\* The content the target element has before the page function runs.
PriorContent == <<"o", "l", "d">>

\* A local that holds either a string or a Promise object.
StringValue(text) == [promise |-> FALSE, text |-> text]
PromiseValue == [promise |-> TRUE, text |-> <<>>]

\* String(v), as += and the innerHTML setter apply it.
StringOf(v) == IF v.promise THEN <<"[", "o", "b", "j", "e", "c", "t", " ", "P", "r", "o", "m", "i", "s", "e", "]">> ELSE v.text

\* v += text
PlusAssign(v, text) == StringValue(StringOf(v) \o text)

\* The value of the call getPostFromUrl(), an async function: a promise.
getPostFromUrl == PromiseValue

IdlePage ==
    [fn |-> "none", pc |-> "idle", content |-> StringValue(<<>>), postList |-> 0,
     k |-> 0, req |-> 0, maxChars |-> -1, contentOnly |-> FALSE]

\* The page function is the only client of the list it constructs.
PageClient == CHOOSE c \in Clients : \A d \in Clients : c <= d

\* new BlogPostMetaList(file, directory).getPostsSorted(sortBy, reverse), up
\* to the await of the page function.
NewListGetPostsSorted(sortBy, reverse) ==
    LET n == Constructor(inits, heap)
        r == GetPostsStart(n.list, n.inits)
    IN /\ constructed' = TRUE
       /\ list' = r.list
       /\ inits' = r.inits
       /\ heap' = n.heap
       /\ calls' = [calls EXCEPT ![PageClient] =
              [pc |-> "await", op |-> "getPostsSorted", attr |-> sortBy,
               reverse |-> reverse, awaits |-> r.awaits, own |-> r.own,
               early |-> \A i \in 1..Len(n.inits) : n.inits[i].state = "pending",
               ret |-> 0, snap |-> <<>>]]

\* getBlogPosts(domId, directory, file, maxPosts, sortBy, reverse) up to its
\* first await.
CallGetBlogPosts(sortBy, reverse) ==
    /\ page.pc = "idle"
    /\ ~constructed
    /\ NewListGetPostsSorted(sortBy, reverse)
    /\ page' = [page EXCEPT !.fn = "getBlogPosts", !.pc = "awaitList",
                            !.content = getPostFromUrl]
    /\ UNCHANGED <<metaDoc, resolutions, dom>>

\* latestBlogPost(domId, directory, file, maxChars, contentOnly) up to its
\* first await.
CallLatestBlogPost(maxChars, contentOnly) ==
    /\ page.pc = "idle"
    /\ ~constructed
    /\ NewListGetPostsSorted("created", TRUE)
    /\ page' = [page EXCEPT !.fn = "latestBlogPost", !.pc = "awaitList",
                            !.content = StringValue(<<>>),
                            !.maxChars = maxChars, !.contentOnly = contentOnly]
    /\ UNCHANGED <<metaDoc, resolutions, dom>>

\* The cut of latestBlogPost without the step back to a space.
TruncateNoBackoff(content, maxChars, id) ==
    IF maxChars >= 0
    THEN Substr0(content, maxChars)
             \o <<"<", "a", " ", "h", "r", "e", "f", "=", "\"", "b", "l", "o", "g", ".", "h", "t", "m", "l", "?", "i", "d", "=", "'">> \o Replace(id, <<".", "j", "s", "o", "n">>, <<>>)
             \o <<"'", "\"", ">", "<", "i", ">", "R", "e", "a", "d", " ", "M", "o", "r", "e", "<", "/", "i", ">", "<", "/", "a", ">">>
    ELSE content

\* What latestBlogPost makes of the rendered post before writing it.
Truncate(content, maxChars, id) ==
    IF maxChars >= 0
    THEN LET cut  == Substr0(content, maxChars)
             kept == IF Len(cut) = maxChars
                     THEN Substr0(cut, Min(Len(cut), LastIndexOf(cut, <<" ">>)))
                     ELSE cut
         IN kept \o <<"<", "a", " ", "h", "r", "e", "f", "=", "\"", "b", "l", "o", "g", ".", "h", "t", "m", "l", "?", "i", "d", "=", "'">> \o Replace(id, <<".", "j", "s", "o", "n">>, <<>>)
                 \o <<"'", "\"", ">", "<", "i", ">", "R", "e", "a", "d", " ", "M", "o", "r", "e", "<", "/", "i", ">", "<", "/", "a", ">">>
    ELSE content

\* A loop that writes what it has so far into the element on every pass.
ElementWrittenEachPass(d, content) == StringOf(content)

\* The element while the loop of getBlogPosts is running: untouched.
ElementDuringLoop(d, content) == d

\* The page function resumes with the sorted list, or with its rejection.
PageListReady ==
    /\ page.pc = "awaitList"
    /\ calls[PageClient].pc \in {"done", "failed"}
    /\ IF calls[PageClient].pc = "failed"
       THEN /\ page' = [page EXCEPT !.pc = "failed"]
            /\ UNCHANGED <<resolutions, dom>>
       ELSE LET postList == heap[calls[PageClient].ret]
            IN IF postList = <<>>
               THEN IF page.fn = "getBlogPosts"
                    THEN \* the loop body never runs
                         /\ dom' = StringOf(page.content)
                         /\ page' = [page EXCEPT !.pc = "done",
                                                 !.postList = calls[PageClient].ret]
                         /\ UNCHANGED resolutions
                    ELSE \* postList[0] is undefined: getPostHtml throws
                         /\ page' = [page EXCEPT !.pc = "failed",
                                                 !.postList = calls[PageClient].ret]
                         /\ UNCHANGED <<resolutions, dom>>
               ELSE /\ resolutions' = GetPostStart(resolutions, postList[1])
                    /\ page' = [page EXCEPT !.pc = "awaitPost", !.k = 1,
                                            !.req = Len(resolutions) + 1,
                                            !.postList = calls[PageClient].ret]
                    /\ UNCHANGED dom
    /\ UNCHANGED <<metaDoc, constructed, list, inits, heap, calls>>

\* The page function resumes with the post it awaited, or with its rejection.
PagePostReady ==
    /\ page.pc = "awaitPost"
    /\ resolutions[page.req].state # "pending"
    /\ IF resolutions[page.req].state = "rejected"
       THEN /\ page' = [page EXCEPT !.pc = "failed"]
            /\ UNCHANGED <<resolutions, dom>>
       ELSE LET postList == heap[page.postList]
                post     == resolutions[page.req].post
            IN IF page.fn = "getBlogPosts"
               THEN LET content == PlusAssign(page.content, PostHtml(post, FALSE))
                    IN IF page.k < Len(postList)
                       THEN /\ resolutions' = GetPostStart(resolutions, postList[page.k + 1])
                            /\ page' = [page EXCEPT !.content = content, !.k = page.k + 1,
                                                    !.req = Len(resolutions) + 1]
                            /\ dom' = ElementDuringLoop(dom, content)
                       ELSE /\ page' = [page EXCEPT !.content = content, !.pc = "done"]
                            /\ dom' = StringOf(content)
                            /\ UNCHANGED resolutions
               ELSE LET html    == PlusAssign(page.content, PostHtml(post, page.contentOnly))
                        content == StringValue(Truncate(StringOf(html), page.maxChars,
                                                        postList[1].id))
                    IN /\ page' = [page EXCEPT !.content = content, !.pc = "done"]
                       /\ dom' = StringOf(content)
                       /\ UNCHANGED resolutions
    /\ UNCHANGED <<metaDoc, constructed, list, inits, heap, calls>>

\* ---------------------------------------------------------- specifications
Init ==
    /\ metaDoc \in MetaDocuments
    /\ constructed = FALSE
    /\ list = [initialized |-> FALSE, posts |-> Undefined]
    /\ inits = <<>>
    /\ heap = <<>>
    /\ calls = [c \in Clients |-> IdleCall]
    /\ resolutions = <<>>
    /\ page = IdlePage
    /\ dom = PriorContent

\* One list used by several callers.
Next ==
    \/ Construct
    \/ \E c \in Clients, op \in Operations, attr \in Attributes, reverse \in BOOLEAN :
           Call(c, op, attr, reverse)
    \/ \E i \in 1..Len(inits) : MetaFetchOk(i)
    \/ \E i \in 1..Len(inits) : MetaFetchFail(i)
    \/ \E c \in Clients : Resume(c)

Spec == Init /\ [][Next]_vars

\* One run of a page assembly function.
NextPage ==
    \/ \E sortBy \in Attributes, reverse \in BOOLEAN : CallGetBlogPosts(sortBy, reverse)
    \/ \E maxChars \in (-1)..MaxChars, contentOnly \in BOOLEAN :
           CallLatestBlogPost(maxChars, contentOnly)
    \/ \E i \in 1..Len(inits) : MetaFetchOk(i)
    \/ \E i \in 1..Len(inits) : MetaFetchFail(i)
    \/ \E c \in Clients : Resume(c)
    \/ PageListReady
    \/ \E j \in 1..Len(resolutions) : PostFetchOk(j)
    \/ \E j \in 1..Len(resolutions) : PostFetchFail(j)
    \/ PagePostReady

SpecPage == Init /\ [][NextPage]_vars

\* Callers that fetch the list with getPosts and resolve its handles.
NextResolve ==
    \/ Construct
    \/ \E c \in Clients : Call(c, "getPosts", "created", FALSE)
    \/ \E i \in 1..Len(inits) : MetaFetchOk(i)
    \/ \E i \in 1..Len(inits) : MetaFetchFail(i)
    \/ \E c \in Clients : Resume(c)
    \/ \E c \in Clients, k \in 1..MaxPosts : GetPost(c, k)
    \/ \E j \in 1..Len(resolutions) : PostFetchOk(j)
    \/ \E j \in 1..Len(resolutions) : PostFetchFail(j)

SpecResolve == Init /\ [][NextResolve]_vars

\* ------------------------------------------------------------- properties
\* The handles of the metadata document, in the order of its `posts` array.
Handles == convertToMetadataObject(Directory, metaDoc["posts"])

Range(q) == {q[i] : i \in 1..Len(q)}
Count(q, x) == Cardinality({i \in 1..Len(q) : q[i] = x})
IsPermutation(a, b) ==
    /\ Len(a) = Len(b)
    /\ \A x \in Range(a) \cup Range(b) : Count(a, x) = Count(b, x)

Started(c) == calls[c].pc # "idle"
Done(c) == calls[c].pc = "done"
Fresh == constructed /\ \A c \in Clients : ~Started(c)
StoredIsArray == list.posts.tag = "array"

\* C1 as stated: a freshly constructed list, before any call, has its flag
\* false and holds an empty sequence; once a getPosts call has completed the
\* flag is true and the stored sequence is as long as the `posts` array.
C1_FreshIsUninitialized ==
    /\ Fresh => (~list.initialized /\ StoredIsArray /\ heap[list.posts.n] = <<>>)
    /\ \A c \in Clients : (Done(c) /\ calls[c].op = "getPosts") =>
           (list.initialized /\ StoredIsArray
              /\ Len(heap[list.posts.n]) = Len(metaDoc["posts"]))

\* C1 amended: a constructed list has its flag true and its metadata fetch
\* issued; until that fetch has delivered, the posts field holds the promise
\* of init(), not a sequence; once a getPosts call has completed the flag is
\* true and the stored sequence is as long as the `posts` array.
C1_ConstructorInitializes ==
    /\ constructed => (list.initialized /\ Len(inits) >= 1)
    /\ (constructed /\ inits[1].state # "fulfilled") => list.posts = PromiseOf(1)
    /\ \A c \in Clients : (Done(c) /\ calls[c].op = "getPosts") =>
           (list.initialized /\ StoredIsArray
              /\ Len(heap[list.posts.n]) = Len(metaDoc["posts"]))

C1_Witness ==
    /\ Len(metaDoc["posts"]) >= 2
    /\ \E c \in Clients : Done(c) /\ calls[c].op = "getPosts"
    /\ \E c \in Clients : ~Started(c)

\* C2 as stated: the metadata document is fetched at most once, the one
\* fetch being issued by the first access to the list (a call that finds it
\* uninitialized and runs init()); a completed getPosts call returns the
\* array the list stores.
C2_InitializedOnFirstAccess ==
    /\ Len(inits) <= 1
    /\ Len(inits) = 1 => \E c \in Clients : Started(c) /\ calls[c].own
    /\ \A c \in Clients : (Done(c) /\ calls[c].op = "getPosts") =>
           (StoredIsArray /\ calls[c].ret = list.posts.n)

\* C2 amended: the metadata document is fetched exactly once, by the
\* constructor: whatever calls are made, none runs init(), and a completed
\* getPosts call returns the array the list stores.
C2_FetchedOnceByConstructor ==
    /\ Len(inits) = (IF constructed THEN 1 ELSE 0)
    /\ \A c \in Clients : Started(c) => ~calls[c].own
    /\ \A c \in Clients : (Done(c) /\ calls[c].op = "getPosts") =>
           (StoredIsArray /\ calls[c].ret = list.posts.n)

C2_Witness ==
    /\ \A c \in Clients : Done(c)
    /\ \E c \in Clients : ~calls[c].early
    /\ \E c \in Clients : calls[c].op = "getPostsMostRecent"

\* The calls issued before any metadata fetch had completed.
EarlyCalls == {c \in Clients : Started(c) /\ calls[c].early}

\* C3 as stated: k calls issued before the first fetch has completed cause
\* k fetches of the metadata document.
C3_EachEarlyCallFetches ==
    EarlyCalls # {} => Len(inits) = Cardinality(EarlyCalls)

\* C3 amended: calls issued before the first fetch has completed cause no
\* fetch at all: each awaits the promise of the one init() the constructor
\* ran, there is exactly one fetch and at most one array is ever stored.
C3_EarlyCallsShareOneInit ==
    /\ constructed => Len(inits) = 1
    /\ Len(heap) <= 1
    /\ \A c \in EarlyCalls : ~calls[c].own /\ calls[c].awaits = PromiseOf(1)

C3_Witness ==
    /\ Cardinality(EarlyCalls) >= 2
    /\ \A c \in EarlyCalls : Done(c)

\* C4: sorting leaves the stored sequence alone: the array the list stores,
\* and what every completed getPosts call returned, is in the order of the
\* `posts` array of the metadata document.
C4_SortLeavesStoredOrder ==
    /\ StoredIsArray => heap[list.posts.n] = Handles
    /\ \A c \in Clients : (Done(c) /\ calls[c].op = "getPosts") => calls[c].snap = Handles

NonDecreasing(q) ==
    \A i, j \in 1..Len(q) : i < j => ~StrLess(q[j].created, q[i].created)
NonIncreasing(q) ==
    \A i, j \in 1..Len(q) : i < j => ~StrLess(q[i].created, q[j].created)

IsSortedCall(c) == calls[c].op \in {"getPostsSorted", "getPostsMostRecent"}

C10_CallersGetEveryHandle ==
    \A c \in Clients : Done(c) =>
        /\ calls[c].ret \in 1..Len(heap)
        /\ IsPermutation(calls[c].snap, Handles)

C10_Witness ==
    /\ Len(Handles) >= 2
    /\ \E c, d \in Clients :
           Done(c) /\ Done(d) /\ calls[c].early /\ ~calls[d].early
\* The HTML getPostHtml produces for a handle, from the document at its path.
RenderedHtml(handle, contentOnly) ==
    PostHtml(BlogPost(PostDocument(handle.path)), contentOnly)

RECURSIVE ConcatHtml(_)
ConcatHtml(handles) ==
    IF handles = <<>> THEN <<>>
    ELSE RenderedHtml(Head(handles), FALSE) \o ConcatHtml(Tail(handles))

ListDone == page.pc = "done" /\ page.fn = "getBlogPosts"
LatestDone == page.pc = "done" /\ page.fn = "latestBlogPost"

\* C6: when getBlogPosts completes, the element holds exactly the rendered
\* posts of the sorted list one after the other, and the empty string for a
\* list without posts.
C6_ElementIsConcatenation ==
    ListDone => dom = ConcatHtml(heap[page.postList])

\* C7: a failing metadata fetch, post fetch or BlogPost construction is not
\* caught: the page function never completes after one, fetches no post
\* after one, and the element keeps its prior content; the element is
\* written only when the function completes.
C7_FailureLeavesElement ==
    /\ page.pc # "done" => dom = PriorContent
    /\ \A j \in 1..(Len(resolutions) - 1) : resolutions[j].state = "fulfilled"
    /\ (\E i \in 1..Len(inits) : inits[i].state # "fulfilled") => resolutions = <<>>
    /\ page.pc = "done" =>
           /\ \A i \in 1..Len(inits) : inits[i].state = "fulfilled"
           /\ \A j \in 1..Len(resolutions) : resolutions[j].state = "fulfilled"
    /\ page.pc = "failed" =>
           \A j \in 1..Len(resolutions) : resolutions[j].state # "pending"

C7_Witness ==
    /\ page.pc = "failed" /\ page.fn = "getBlogPosts"
    /\ Len(resolutions) = 2
    /\ resolutions[1].state = "fulfilled" /\ resolutions[2].state = "rejected"

ReadMore(id) == <<"<", "a", " ", "h", "r", "e", "f", "=", "\"", "b", "l", "o", "g", ".", "h", "t", "m", "l", "?", "i", "d", "=", "'">> \o id \o <<"'", "\"", ">", "<", "i", ">", "R", "e", "a", "d", " ", "M", "o", "r", "e", "<", "/", "i", ">", "<", "/", "a", ">">>

DotJson == <<".", "j", "s", "o", "n">>

\* id without its .json suffix.
SuffixStripped(id) ==
    IF Len(id) >= Len(DotJson) /\ SubSeq(id, Len(id) - Len(DotJson) + 1, Len(id)) = DotJson
    THEN SubSeq(id, 1, Len(id) - Len(DotJson))
    ELSE id

\* id without the first .json it holds.
FirstDotJsonRemoved(id) ==
    LET at == {i \in 0..(Len(id) - Len(DotJson)) : SubSeq(id, i + 1, i + Len(DotJson)) = DotJson}
    IN IF at = {} THEN id
       ELSE LET i == CHOOSE x \in at : \A y \in at : x <= y
            IN SubSeq(id, 1, i) \o SubSeq(id, i + Len(DotJson) + 1, Len(id))

\* The rendered HTML of the post latestBlogPost shows, and its handle.
LatestHandle == heap[page.postList][1]
LatestHtml == RenderedHtml(LatestHandle, page.contentOnly)
Limited == LatestDone /\ page.maxChars >= 0 /\ Len(LatestHtml) > page.maxChars

\* The positions n < maxChars at which the rendered HTML holds a space
\* right after its first n characters.
SpacesBeforeCut == {n \in 0..(page.maxChars - 1) : LatestHtml[n + 1] = " "}

\* C8 as stated: for a post longer than maxChars the element holds the
\* rendered HTML up to the nearest space before the cut, so that the next
\* character of the rendered HTML is a space, and then the "Read More" link
\* to the id without its .json suffix.
C8_CutsAtPrecedingSpace ==
    Limited =>
        \E n \in SpacesBeforeCut :
            /\ \A m \in SpacesBeforeCut : m <= n
            /\ dom = SubSeq(LatestHtml, 1, n) \o ReadMore(SuffixStripped(LatestHandle.id))

\* C8 amended: the element holds the rendered HTML up to the last space
\* among its first maxChars characters, or nothing of it when these hold no
\* space, and then the "Read More" link to the id without the first .json
\* it holds.
C8_CutsAtSpaceOrDropsAll ==
    Limited =>
        /\ SpacesBeforeCut = {} =>
               dom = ReadMore(FirstDotJsonRemoved(LatestHandle.id))
        /\ \A n \in SpacesBeforeCut :
               (\A m \in SpacesBeforeCut : m <= n) =>
                   dom = SubSeq(LatestHtml, 1, n)
                             \o ReadMore(FirstDotJsonRemoved(LatestHandle.id))

C8_Witness ==
    /\ Limited
    /\ page.maxChars >= 1
    /\ SpacesBeforeCut # {}
    /\ LatestHtml[page.maxChars] # " "
    /\ LatestHtml[page.maxChars + 1] # " "

\* C9: a post resolved from a handle equals the post built from the same
\* document, and two resolutions of one handle, each with its own fetch,
\* give posts that equal each other.
C9_ResolvedPostsAreEqual ==
    \A i, j \in 1..Len(resolutions) :
        (/\ resolutions[i].state = "fulfilled"
         /\ resolutions[j].state = "fulfilled"
         /\ resolutions[i].path = resolutions[j].path) =>
            /\ equals(resolutions[i].post, BlogPost(PostDocument(resolutions[i].path)))
            /\ equals(resolutions[i].post, resolutions[j].post)

C9_Witness ==
    \E i, j \in 1..Len(resolutions) :
        /\ i # j
        /\ resolutions[i].state = "fulfilled"
        /\ resolutions[j].state = "fulfilled"
        /\ resolutions[i].path = resolutions[j].path
        /\ equals(resolutions[i].post, resolutions[j].post)

====
